---- MODULE Spec2Model ----
(***************************************************************************)
(* The auth service of src/auth_service: the request handlers of main.py   *)
(* over the three tables of database.py.  A handler is a sequence of       *)
(* storage calls (db.fetchrow / db.execute); every call takes its own      *)
(* pooled connection and commits on its own (database.py 27-33), so other  *)
(* requests may run between two calls of one handler.  Each action below   *)
(* is one storage call together with the local computation that precedes   *)
(* it, and the last action of a handler also produces the response.        *)
(* Time is the UTC clock in whole seconds, the resolution of a JWT "exp".  *)
(* The module also holds with_retry of src/medical-explain/utils.py, a      *)
(* helper that shares nothing with the service; its runner occupies a slot *)
(* like a request does.                                                    *)
(***************************************************************************)
EXTENDS Integers, FiniteSets, Sequences, TLC

(* ------------------------------ bounds -------------------------------- *)
MaxUsers == 2        \* rows ever inserted into users
MaxOtps == 2         \* rows ever inserted into otp_codes
MaxRefresh == 3      \* rows ever inserted into refresh_tokens
MaxTicks == 1        \* clock advances in one behaviour
MaxRetries == 3      \* largest retries argument of with_retry

(* ------------------------- settings (config.py) ----------------------- *)
ACCESS_TOKEN_EXPIRE_MINUTES == 30
REFRESH_TOKEN_EXPIRE_DAYS == 7
OTP_EXPIRE_MINUTES == 5

\* datetime.timedelta in seconds
timedelta_minutes(m) == m * 60
timedelta_days(d) == d * 86400

AccessTtl == timedelta_minutes(ACCESS_TOKEN_EXPIRE_MINUTES)
RefreshTtl == timedelta_days(REFRESH_TOKEN_EXPIRE_DAYS)
OtpTtl == timedelta_minutes(OTP_EXPIRE_MINUTES)

(* ------------------------------ inputs -------------------------------- *)
\* Strings that the code inspects are sequences of one-character strings.
None == <<>>                                  \* Python None / SQL NULL
Emails == {<<"a", "@">>, <<"b", "@">>}
Phones == {<<"+", "1">>, <<"+", "2">>}
Usernames == {"alice", "bob"}
Upper == {"A", "B"}
Lower == {"a", "b"}
Digit == {"1", "2"}
StrongPass == <<"A", "a", "a", "a", "a", "a", "a", "1">>
OtherPass == <<"B", "b", "b", "b", "b", "b", "b", "2">>
WeakPass == <<"a", "a", "a", "a", "a", "a", "a", "a">>
Passwords == {StrongPass, OtherPass, WeakPass}
\* Passwords around the policy: three leading characters of any class, the
\* last of them repeated up to a length just below or at the minimum.
PolicyAlphabet == {"A", "a", "1"}
Filled(prefix, n) ==
    [i \in 1..n |-> IF i <= Len(prefix) THEN prefix[i] ELSE prefix[Len(prefix)]]
PolicyPasswords ==
    {Filled(<<a, b, c>>, n) : a \in PolicyAlphabet, b \in PolicyAlphabet,
                              c \in PolicyAlphabet, n \in 7..8}
Codes == {"123456", "654321"}
Channels == {"email", "phone"}

VARIABLES
    users,            \* table users
    otp_codes,        \* table otp_codes
    refresh_tokens,   \* table refresh_tokens
    next_user_id,     \* SERIAL of users.id
    next_otp_id,      \* SERIAL of otp_codes.id
    next_refresh_id,  \* SERIAL of refresh_tokens.id
    now,              \* datetime.utcnow(), in seconds
    ticks,            \* number of clock advances so far
    pc,               \* per request slot: the handler running in it and its locals
    handed,           \* history: the tokens returned to clients, with their kind
    redeemed,         \* history: refresh token strings a Refresh has accepted
    revoked,          \* history: refresh token strings issued before a finished Logout of their user
    verified          \* history: <<identifier, type, code>> a VerifyOTP has accepted

vars == <<users, otp_codes, refresh_tokens, next_user_id, next_otp_id,
          next_refresh_id, now, ticks, pc, handed, redeemed, revoked, verified>>

store == <<users, otp_codes, refresh_tokens, next_user_id, next_otp_id, next_refresh_id>>
history == <<handed, redeemed, revoked, verified>>

(* --------------------------- utils.py --------------------------------- *)
\* pwd_context.hash / pwd_context.verify: the salt does not change what verifies.
get_password_hash(password) == <<"bcrypt", password>>

\* A variant that accepts any password.
verify_password_Any(plain_password, hashed_password) == TRUE

verify_password(plain_password, hashed_password) ==
    hashed_password = <<"bcrypt", plain_password>>

\* jwt.encode of {"sub": ..., "exp": ...}: HS256 is deterministic, so the
\* token string is a function of the two claims; sig is whether the string
\* carries the server's signature.
jwt_encode(sub, exp) == [sub |-> sub, exp |-> exp, sig |-> TRUE]
ForgedToken == [sub |-> 1, exp |-> 0, sig |-> FALSE]
NoToken == [sub |-> 0, exp |-> 0, sig |-> FALSE]

\* jwt.decode raises JWTError on a bad signature and on exp < now.
jwt_decode_ok(token, t) == token.sig /\ ~(token.exp < t)

create_access_token(sub, t) == jwt_encode(sub, t + AccessTtl)
create_refresh_token(sub, t) == jwt_encode(sub, t + RefreshTtl)

(* --------------------------- models.py -------------------------------- *)
HasChar(v, class) == \E i \in 1..Len(v) : v[i] \in class

validate_password_NoDigit(v) ==
    /\ ~(Len(v) < 8)
    /\ HasChar(v, Upper)
    /\ HasChar(v, Lower)

validate_password(v) ==
    /\ ~(Len(v) < 8)
    /\ HasChar(v, Upper)
    /\ HasChar(v, Lower)
    /\ HasChar(v, Digit)

(* ------------------------- SQL of database.py ------------------------- *)
\* A variant in which NULL equals NULL.
SqlEq_NullEqual(a, b) == a = b

\* = in SQL: NULL equals nothing.
SqlEq(a, b) == a # None /\ b # None /\ a = b

\* A variant of the table without its UNIQUE constraints.
UsersUniqueViolation_None(email, phone, username) == FALSE

\* An INSERT into users breaks a UNIQUE constraint (database.py 46-48).
UsersUniqueViolation(email, phone, username) ==
    \E u \in users : SqlEq(u.email, email) \/ SqlEq(u.phone, phone) \/ u.username = username

\* An INSERT into refresh_tokens breaks token UNIQUE (database.py 87).
TokenUniqueViolation(token) == \E r \in refresh_tokens : r.token = token

\* SELECT * FROM users WHERE email = $1 AND is_active = TRUE (and by phone).
ActiveByEmail(email) == {u \in users : SqlEq(u.email, email) /\ u.is_active}
ActiveByPhone(phone) == {u \in users : SqlEq(u.phone, phone) /\ u.is_active}

\* A variant that forgets the is_active test.
ActiveById_AnyState(id) == {u \in users : u.id = id}

\* SELECT * FROM users WHERE id = $1 AND is_active = TRUE (auth.py 27-29)
ActiveById(id) == {u \in users : u.id = id /\ u.is_active}

(* --------------------------- request slots ---------------------------- *)
Idle == [op |-> "idle", step |-> "idle"]
Slots == DOMAIN pc
\* A slot takes a request when it is idle; a finished slot shows its response
\* until the response is collected.
Free(p) == pc[p].step = "idle"
Running(p) == pc[p].step \notin {"idle", "done"}
Finish(p, result) == [pc[p] EXCEPT !.step = "done", !.result = result]

\* A slot whose handler is still to insert a refresh token.
Issuers == {p \in Slots : Running(p) /\ pc[p].op \in {"login", "verify_otp", "refresh_token"}}
RoomForRefresh == next_refresh_id + Cardinality(Issuers) <= MaxRefresh

\* The same for the other two tables.
RoomForUser ==
    next_user_id + Cardinality({q \in Slots : Running(q) /\ pc[q].op = "register"}) <= MaxUsers
RoomForOtp ==
    next_otp_id + Cardinality({q \in Slots : Running(q) /\ pc[q].op = "request_otp"
                                              /\ pc[q].step = "insert"}) <= MaxOtps

(* ------------------------------ register ------------------------------ *)
\* models.py 55-71: UserResponse(**dict(user)) keeps the columns that are
\* fields of UserResponse and ignores the others.
UserResponseFields ==
    {"id", "email", "phone", "username", "is_active", "email_verified", "phone_verified"}

\* A variant that returns the row as it is.
UserResponse_WholeRow(row) == row

UserResponse(row) == [f \in UserResponseFields |-> row[f]]

\* main.py 53-67: request validation (models.py), then the existence check.
RegisterCheck(p, email, phone, username, password) ==
    /\ Free(p)
    /\ LET call == [op |-> "register", step |-> "insert", email |-> email,
                    phone |-> phone, username |-> username, password |-> password,
                    first |-> next_user_id, id |-> 0, view |-> None,
                    result |-> "none"]
           existing_user == {u \in users : SqlEq(u.email, email)
                                           \/ u.username = username
                                           \/ SqlEq(u.phone, phone)}
       IN  IF ~validate_password(password)
           THEN pc' = [pc EXCEPT ![p] =
                         [call EXCEPT !.step = "done", !.result = "InvalidInput"]]
           ELSE IF existing_user # {}
           THEN pc' = [pc EXCEPT ![p] =
                         [call EXCEPT !.step = "done", !.result = "Conflict"]]
           ELSE RoomForUser /\ pc' = [pc EXCEPT ![p] = call]
    /\ UNCHANGED <<store, now, ticks, history>>

\* main.py 69-94: hash the password, INSERT ... RETURNING *.
RegisterInsert(p) ==
    /\ pc[p].op = "register" /\ pc[p].step = "insert"
    /\ IF UsersUniqueViolation(pc[p].email, pc[p].phone, pc[p].username)
       THEN /\ pc' = [pc EXCEPT ![p] = Finish(p, "InternalError")]
            /\ UNCHANGED <<users, next_user_id>>
       ELSE LET user == [id |-> next_user_id, email |-> pc[p].email,
                         phone |-> pc[p].phone, username |-> pc[p].username,
                         password_hash |-> get_password_hash(pc[p].password),
                         is_active |-> TRUE, email_verified |-> FALSE,
                         phone_verified |-> FALSE]
            IN  /\ users' = users \cup {user}
                /\ next_user_id' = next_user_id + 1
                /\ pc' = [pc EXCEPT ![p] = [Finish(p, "ok") EXCEPT
                                              !.id = next_user_id,
                                              !.view = UserResponse(user)]]
    /\ UNCHANGED <<otp_codes, refresh_tokens, next_otp_id, next_refresh_id, now, ticks, history>>

(* --------------------------- token issuance --------------------------- *)
\* INSERT INTO refresh_tokens (user_id, token, expires_at): the table after it.
InsertRefreshToken(user_id, token, expires_at) ==
    refresh_tokens \cup {[id |-> next_refresh_id, user_id |-> user_id,
                          token |-> token, expires_at |-> expires_at]}

\* A variant that forgets the lifetime.
RefreshExpiresAt_NoTtl(t) == t

\* expires_at = datetime.utcnow() + timedelta(days=REFRESH_TOKEN_EXPIRE_DAYS)
RefreshExpiresAt(t) == t + timedelta_days(REFRESH_TOKEN_EXPIRE_DAYS)

\* Token(access_token=..., refresh_token=...) reaches the client.
Hand(access, refresh) ==
    handed \cup {[tok |-> access, kind |-> "access"], [tok |-> refresh, kind |-> "refresh"]}

\* What a client can present as a token: one it was given, or a forgery.
Presentable == {h.tok : h \in handed} \cup {ForgedToken}

\* The three issuing handlers end alike (main.py 118-131, 237-250, 276-291):
\* create both tokens for sub at the current time, insert the refresh token.
IssueTokens(p, sub) ==
    LET access_token == create_access_token(sub, now)
        refresh_token == create_refresh_token(sub, now)
    IN  IF TokenUniqueViolation(refresh_token)
        THEN /\ pc' = [pc EXCEPT ![p] = Finish(p, "InternalError")]
             /\ UNCHANGED <<refresh_tokens, next_refresh_id, handed>>
        ELSE /\ refresh_tokens' = InsertRefreshToken(sub, refresh_token, RefreshExpiresAt(now))
             /\ next_refresh_id' = next_refresh_id + 1
             /\ handed' = Hand(access_token, refresh_token)
             /\ pc' = [pc EXCEPT ![p] = [Finish(p, "ok") EXCEPT
                                           !.access = access_token,
                                           !.refresh = refresh_token]]

(* -------------------------------- login ------------------------------- *)
\* A variant that takes every identifier for an email.
IsEmail_Always(identifier) == TRUE

\* main.py 100: is_email = "@" in user_data.identifier
IsEmail(identifier) == HasChar(identifier, {"@"})

\* main.py 97-116: classify the identifier, fetch the active user, verify.
LoginFetch(p, identifier, password) ==
    /\ Free(p)
    /\ LET is_email == IsEmail(identifier)
           user == IF is_email THEN ActiveByEmail(identifier) ELSE ActiveByPhone(identifier)
           call == [op |-> "login", step |-> "insert", identifier |-> identifier,
                    password |-> password, uid |-> 0, result |-> "none",
                    access |-> NoToken, refresh |-> NoToken]
       IN  \/ /\ \A u \in user : ~verify_password(password, u.password_hash)
              /\ pc' = [pc EXCEPT ![p] =
                          [call EXCEPT !.step = "done", !.result = "Unauthorized"]]
           \/ \E u \in user :
                /\ verify_password(password, u.password_hash)
                /\ RoomForRefresh
                /\ pc' = [pc EXCEPT ![p] = [call EXCEPT !.uid = u.id]]
    /\ UNCHANGED <<store, now, ticks, history>>

\* main.py 118-131
LoginInsert(p) ==
    /\ pc[p].op = "login" /\ pc[p].step = "insert"
    /\ IssueTokens(p, pc[p].uid)
    /\ UNCHANGED <<users, otp_codes, next_user_id, next_otp_id, now, ticks,
                   redeemed, revoked, verified>>

(* ---------------------------- refresh_token --------------------------- *)
\* A variant that finds expired records too.
TokenRecords_NoExpiry(token, t) == {r \in refresh_tokens : r.token = token}

\* SELECT * FROM refresh_tokens WHERE token = $1 AND expires_at > $2
TokenRecords(token, t) == {r \in refresh_tokens : r.token = token /\ r.expires_at > t}

\* main.py 255-271: decode, then look the token string up.
RefreshLookup(p, token) ==
    /\ Free(p)
    /\ token \in Presentable
    /\ LET token_record == TokenRecords(token, now)
           call == [op |-> "refresh_token", step |-> "delete", token |-> token,
                    sub |-> token.sub, rec |-> 0, owner |-> 0, deleted |-> 0,
                    result |-> "none",
                    access |-> NoToken, refresh |-> NoToken,
                    replay |-> token \in redeemed,
                    after_logout |-> token \in revoked]
       IN  IF ~jwt_decode_ok(token, now) \/ token_record = {}
           THEN pc' = [pc EXCEPT ![p] =
                         [call EXCEPT !.step = "done", !.result = "Unauthorized"]]
           ELSE \E r \in token_record :
                    /\ RoomForRefresh
                    /\ pc' = [pc EXCEPT ![p] = [call EXCEPT !.rec = r.id,
                                                             !.owner = r.user_id]]
    /\ UNCHANGED <<store, now, ticks, history>>

\* main.py 273-274: DELETE FROM refresh_tokens WHERE id = $1; deleted is the
\* row count of the statement, which the handler does not look at.
RefreshDelete(p) ==
    /\ pc[p].op = "refresh_token" /\ pc[p].step = "delete"
    /\ refresh_tokens' = {r \in refresh_tokens : r.id # pc[p].rec}
    /\ pc' = [pc EXCEPT ![p].step = "insert",
                        ![p].deleted = Cardinality(refresh_tokens \ refresh_tokens')]
    /\ UNCHANGED <<users, otp_codes, next_user_id, next_otp_id, next_refresh_id,
                   now, ticks, history>>

\* main.py 276-291
RefreshInsert(p) ==
    /\ pc[p].op = "refresh_token" /\ pc[p].step = "insert"
    /\ IssueTokens(p, pc[p].sub)
    /\ redeemed' = IF pc'[p].result = "ok" THEN redeemed \cup {pc[p].token} ELSE redeemed
    /\ UNCHANGED <<users, otp_codes, next_user_id, next_otp_id, now, ticks,
                   revoked, verified>>

(* ------------------------------- logout ------------------------------- *)
\* A variant that also wants a live session (a refresh token record) of the user.
get_current_user_NeedsSession(token) ==
    IF ~jwt_decode_ok(token, now) THEN {}
    ELSE {u \in ActiveById(token.sub) : \E r \in refresh_tokens : r.user_id = u.id}

\* auth.py 12-40: get_current_user, the dependency of /logout and /me.
get_current_user(token) ==
    IF ~jwt_decode_ok(token, now) THEN {} ELSE ActiveById(token.sub)

\* A variant that deletes the records of the token's subject before it
\* authenticates the token.
LogoutAuth_DeleteFirst(p, token) ==
    /\ Free(p)
    /\ token \in Presentable
    /\ refresh_tokens' = {r \in refresh_tokens : r.user_id # token.sub}
    /\ LET current_user == get_current_user(token)
           call == [op |-> "logout", step |-> "delete", token |-> token,
                    uid |-> 0, during |-> {}, result |-> "none"]
       IN  IF current_user = {}
           THEN pc' = [pc EXCEPT ![p] =
                         [call EXCEPT !.step = "done", !.result = "Unauthorized"]]
           ELSE \E u \in current_user :
                    pc' = [pc EXCEPT ![p] = [call EXCEPT !.uid = u.id]]
    /\ UNCHANGED <<users, otp_codes, next_user_id, next_otp_id, next_refresh_id,
                   now, ticks, history>>

\* main.py 303-304 with auth.py 12-40
LogoutAuth(p, token) ==
    /\ Free(p)
    /\ token \in Presentable
    /\ LET current_user == get_current_user(token)
           call == [op |-> "logout", step |-> "delete", token |-> token,
                    uid |-> 0, during |-> {}, result |-> "none"]
       IN  IF current_user = {}
           THEN pc' = [pc EXCEPT ![p] =
                         [call EXCEPT !.step = "done", !.result = "Unauthorized"]]
           ELSE \E u \in current_user :
                    pc' = [pc EXCEPT ![p] = [call EXCEPT !.uid = u.id]]
    /\ UNCHANGED <<store, now, ticks, history>>

\* The records that Refresh calls have matched and not yet replaced.
BeingRotated(user_id) ==
    {pc[q].rec : q \in {s \in Slots : /\ pc[s].op = "refresh_token"
                                      /\ pc[s].step \in {"delete", "insert"}
                                      /\ pc[s].owner = user_id}}

\* A variant whose DELETE has no WHERE clause.
LogoutDelete_All(p) ==
    /\ pc[p].op = "logout" /\ pc[p].step = "delete"
    /\ refresh_tokens' = {}
    /\ revoked' = revoked \cup
          {h.tok : h \in {g \in handed : g.kind = "refresh" /\ g.tok.sub = pc[p].uid}}
    /\ pc' = [pc EXCEPT ![p] = [Finish(p, "ok") EXCEPT !.during = BeingRotated(pc[p].uid)]]
    /\ UNCHANGED <<users, otp_codes, next_user_id, next_otp_id, next_refresh_id,
                   now, ticks, handed, redeemed, verified>>

\* main.py 305-309: DELETE FROM refresh_tokens WHERE user_id = $1; during is
\* history: the rotations of the user's tokens under way at the DELETE.
LogoutDelete(p) ==
    /\ pc[p].op = "logout" /\ pc[p].step = "delete"
    /\ refresh_tokens' = {r \in refresh_tokens : r.user_id # pc[p].uid}
    /\ revoked' = revoked \cup
          {h.tok : h \in {g \in handed : g.kind = "refresh" /\ g.tok.sub = pc[p].uid}}
    /\ pc' = [pc EXCEPT ![p] = [Finish(p, "ok") EXCEPT !.during = BeingRotated(pc[p].uid)]]
    /\ UNCHANGED <<users, otp_codes, next_user_id, next_otp_id, next_refresh_id,
                   now, ticks, handed, redeemed, verified>>

(* --------------------------------- me --------------------------------- *)
\* main.py 298-300 with auth.py 12-40: one storage call, then the response.
get_current_user_info(p, token) ==
    /\ Free(p)
    /\ token \in Presentable
    /\ LET current_user == get_current_user(token)
           call == [op |-> "me", step |-> "done", token |-> token,
                    uid |-> 0, result |-> "Unauthorized"]
       IN  IF current_user = {}
           THEN pc' = [pc EXCEPT ![p] = call]
           ELSE \E u \in current_user :
                    pc' = [pc EXCEPT ![p] = [call EXCEPT !.uid = u.id, !.result = "ok"]]
    /\ UNCHANGED <<store, now, ticks, history>>

(* ---------------------------- deactivation ---------------------------- *)
\* No handler clears users.is_active (database.py 57): an operator does it on
\* the table, which is the case every "AND is_active = TRUE" is written for.
Deactivate(id) ==
    /\ \E u \in users : u.id = id /\ u.is_active
    /\ users' = {IF u.id = id THEN [u EXCEPT !.is_active = FALSE] ELSE u : u \in users}
    /\ UNCHANGED <<otp_codes, refresh_tokens, next_user_id, next_otp_id, next_refresh_id,
                   now, ticks, pc, history>>

(* ----------------------------- request_otp ---------------------------- *)
\* The active user of an OTP request: by email for type email, else by phone.
UserForOtp(identifier, type) ==
    IF type = "email" THEN ActiveByEmail(identifier) ELSE ActiveByPhone(identifier)

\* main.py 134-151
RequestOtpFetch(p, identifier, type) ==
    /\ Free(p)
    /\ LET user == UserForOtp(identifier, type)
           call == [op |-> "request_otp", step |-> "insert", identifier |-> identifier,
                    type |-> type, uid |-> 0, code |-> "", rec |-> 0,
                    result |-> "none"]
       IN  IF user = {}
           THEN pc' = [pc EXCEPT ![p] =
                         [call EXCEPT !.step = "done", !.result = "NotFound"]]
           ELSE \E u \in user :
                    /\ RoomForOtp
                    /\ pc' = [pc EXCEPT ![p] = [call EXCEPT !.uid = u.id]]
    /\ UNCHANGED <<store, now, ticks, history>>

\* A variant that gives the code the lifetime of an access token.
OtpExpiresAt_AccessTtl(t) == t + timedelta_minutes(ACCESS_TOKEN_EXPIRE_MINUTES)

\* expires_at = datetime.utcnow() + timedelta(minutes=OTP_EXPIRE_MINUTES)
OtpExpiresAt(t) == t + timedelta_minutes(OTP_EXPIRE_MINUTES)

\* main.py 153-168: generate_otp draws the code; INSERT INTO otp_codes.
RequestOtpInsert(p, otp_code) ==
    /\ pc[p].op = "request_otp" /\ pc[p].step = "insert"
    /\ otp_codes' = otp_codes \cup
          {[id |-> next_otp_id, user_id |-> pc[p].uid, code |-> otp_code,
            type |-> pc[p].type, purpose |-> "login",
            expires_at |-> OtpExpiresAt(now), used |-> FALSE, created_at |-> now]}
    /\ next_otp_id' = next_otp_id + 1
    /\ verified' = verified \ {<<pc[p].identifier, pc[p].type, otp_code>>}
    /\ pc' = [pc EXCEPT ![p] = [pc[p] EXCEPT !.step = "send", !.code = otp_code,
                                              !.rec = next_otp_id]]
    /\ UNCHANGED <<users, refresh_tokens, next_user_id, next_refresh_id, now, ticks,
                   handed, redeemed, revoked>>

\* main.py 170-182: send_otp_email / send_otp_sms return whether delivery worked.
RequestOtpSend(p, success) ==
    /\ pc[p].op = "request_otp" /\ pc[p].step = "send"
    /\ pc' = [pc EXCEPT ![p] = Finish(p, IF success THEN "ok" ELSE "DeliveryFailed")]
    /\ UNCHANGED <<store, now, ticks, history>>

(* ------------------------------ verify_otp ---------------------------- *)
\* main.py 185-202
VerifyOtpFetch(p, identifier, type, code) ==
    /\ Free(p)
    /\ LET user == UserForOtp(identifier, type)
           call == [op |-> "verify_otp", step |-> "select", identifier |-> identifier,
                    type |-> type, code |-> code, uid |-> 0, rec |-> 0, at |-> 0,
                    result |-> "none", access |-> NoToken, refresh |-> NoToken,
                    again |-> <<identifier, type, code>> \in verified]
       IN  IF user = {}
           THEN pc' = [pc EXCEPT ![p] =
                         [call EXCEPT !.step = "done", !.result = "NotFound"]]
           ELSE \E u \in user :
                    /\ RoomForRefresh
                    /\ pc' = [pc EXCEPT ![p] = [call EXCEPT !.uid = u.id]]
    /\ UNCHANGED <<store, now, ticks, history>>

\* A variant whose expiry test lets the deadline itself through.
ValidOtps_AtDeadline(user_id, code, type, t) ==
    {o \in otp_codes : /\ o.user_id = user_id /\ o.code = code /\ o.type = type
                       /\ o.used = FALSE /\ o.expires_at >= t}

\* A variant that does not tie the code to the user.
ValidOtps_AnyUser(user_id, code, type, t) ==
    {o \in otp_codes : /\ o.code = code /\ o.type = type
                       /\ o.used = FALSE /\ o.expires_at > t}

\* SELECT * FROM otp_codes WHERE user_id = $1 AND code = $2 AND type = $3
\*   AND used = FALSE AND expires_at > $4  (main.py 205-217)
ValidOtps(user_id, code, type, t) ==
    {o \in otp_codes : /\ o.user_id = user_id /\ o.code = code /\ o.type = type
                       /\ o.used = FALSE /\ o.expires_at > t}

\* ORDER BY created_at DESC LIMIT 1: a newest row; SQL leaves ties open.
Newest(rows) == {o \in rows : \A x \in rows : x.created_at <= o.created_at}

\* main.py 204-222
VerifyOtpSelect(p) ==
    /\ pc[p].op = "verify_otp" /\ pc[p].step = "select"
    /\ LET otp_record == Newest(ValidOtps(pc[p].uid, pc[p].code, pc[p].type, now))
       IN  IF otp_record = {}
           THEN pc' = [pc EXCEPT ![p] = [Finish(p, "InvalidOrExpired") EXCEPT !.at = now]]
           ELSE \E o \in otp_record :
                    pc' = [pc EXCEPT ![p] = [pc[p] EXCEPT !.step = "mark",
                                                          !.rec = o.id, !.at = now]]
    /\ UNCHANGED <<store, now, ticks, history>>

\* main.py 224-225: UPDATE otp_codes SET used = TRUE WHERE id = $1
VerifyOtpMark(p) ==
    /\ pc[p].op = "verify_otp" /\ pc[p].step = "mark"
    /\ otp_codes' = {IF o.id = pc[p].rec THEN [o EXCEPT !.used = TRUE] ELSE o : o \in otp_codes}
    /\ pc' = [pc EXCEPT ![p].step = "flag"]
    /\ UNCHANGED <<users, refresh_tokens, next_user_id, next_otp_id, next_refresh_id,
                   now, ticks, history>>

\* A variant that marks both channels verified.
SetVerified_Both(u, type) == [u EXCEPT !.email_verified = TRUE, !.phone_verified = TRUE]

\* The row after SET email_verified = TRUE, or SET phone_verified = TRUE.
SetVerified(u, type) ==
    IF type = "email" THEN [u EXCEPT !.email_verified = TRUE]
    ELSE [u EXCEPT !.phone_verified = TRUE]

\* main.py 227-235: UPDATE users SET email_verified / phone_verified = TRUE
VerifyOtpFlag(p) ==
    /\ pc[p].op = "verify_otp" /\ pc[p].step = "flag"
    /\ users' = {IF u.id # pc[p].uid THEN u ELSE SetVerified(u, pc[p].type) : u \in users}
    /\ pc' = [pc EXCEPT ![p].step = "insert"]
    /\ UNCHANGED <<otp_codes, refresh_tokens, next_user_id, next_otp_id, next_refresh_id,
                   now, ticks, history>>

\* main.py 237-250
VerifyOtpInsert(p) ==
    /\ pc[p].op = "verify_otp" /\ pc[p].step = "insert"
    /\ IssueTokens(p, pc[p].uid)
    /\ verified' = IF pc'[p].result = "ok"
                   THEN verified \cup {<<pc[p].identifier, pc[p].type, pc[p].code>>}
                   ELSE verified
    /\ UNCHANGED <<users, otp_codes, next_user_id, next_otp_id, now, ticks,
                   redeemed, revoked>>

(* ------------------ with_retry (medical-explain/utils.py) ------------- *)
\* What one call of the wrapped coroutine function can end in: a result, or
\* an exception.  retry_exceptions is (Exception,), the default, which
\* CancelledError, a BaseException, is not an instance of.
Returns == {[kind |-> "return", v |-> "r1"], [kind |-> "return", v |-> "r2"]}
Raises ==
    {[kind |-> "raise", v |-> "TimeoutError"], [kind |-> "raise", v |-> "ConnectionError"],
     [kind |-> "raise", v |-> "CancelledError"]}
Outcomes == Returns \cup Raises
retry_exceptions == {"TimeoutError", "ConnectionError"}
Retryable(outcome) == outcome.kind = "raise" /\ outcome.v \in retry_exceptions

\* Delays are in half seconds; the caller passes initial_delay_s = 0.5 and
\* backoff = 2.0, and zero is the other case of either argument.
Delays == {0, 1}
Backoffs == {0, 2}

\* A variant that gives up one failure earlier.
GiveUp_Early(attempt, retries) == attempt >= retries

\* utils.py 69: if attempt > retries: raise
GiveUp(attempt, retries) == attempt > retries

\* utils.py 75: delay = delay * backoff if backoff and backoff > 0 else delay
NextDelay(delay, backoff) ==
    IF backoff # 0 /\ backoff > 0 THEN delay * backoff ELSE delay

\* utils.py 52-63, 77: with_retry builds the runner; attempt = 0, delay = initial.
\* calls and outcomes are history: how the wrapped calls so far have ended.
RetryStart(p, retries, initial_delay_s, backoff) ==
    /\ Free(p)
    /\ pc' = [pc EXCEPT ![p] =
                 [op |-> "with_retry", step |-> "call", retries |-> retries,
                  backoff |-> backoff, attempt |-> 0, delay |-> initial_delay_s,
                  calls |-> 0, outcomes |-> <<>>, slept |-> 0,
                  result |-> "none", value |-> ""]]
    /\ UNCHANGED <<store, now, ticks, history>>

\* utils.py 65-70: await coro_func(*args, **kwargs), which ends in outcome.
RetryCall(p, outcome) ==
    /\ pc[p].op = "with_retry" /\ pc[p].step = "call"
    /\ LET called == [pc[p] EXCEPT !.calls = @ + 1, !.outcomes = Append(@, outcome)]
           attempt == pc[p].attempt + 1
       IN  pc' = [pc EXCEPT ![p] =
                    IF outcome.kind = "return"
                    THEN [called EXCEPT !.step = "done", !.result = "returned",
                                        !.value = outcome.v]
                    ELSE IF ~Retryable(outcome)
                    THEN [called EXCEPT !.step = "done", !.result = "raised",
                                        !.value = outcome.v]
                    ELSE IF GiveUp(attempt, pc[p].retries)
                    THEN [called EXCEPT !.attempt = attempt, !.step = "done",
                                        !.result = "raised", !.value = outcome.v]
                    ELSE [called EXCEPT !.attempt = attempt, !.step = "sleep"]]
    /\ UNCHANGED <<store, now, ticks, history>>

\* utils.py 71-75: await asyncio.sleep(delay), an Exception it raises is
\* swallowed; then the next delay.  slept is history: the time slept so far.
RetrySleep(p) ==
    /\ pc[p].op = "with_retry" /\ pc[p].step = "sleep"
    /\ pc' = [pc EXCEPT ![p] = [pc[p] EXCEPT !.step = "call",
                                              !.slept = @ + pc[p].delay,
                                              !.delay = NextDelay(@, pc[p].backoff)]]
    /\ UNCHANGED <<store, now, ticks, history>>

(* ------------------------------- clock -------------------------------- *)
Tick(d) ==
    /\ ticks < MaxTicks
    /\ now' = now + d
    /\ ticks' = ticks + 1
    /\ UNCHANGED <<store, pc, history>>

\* The response has been delivered; the slot takes the next request.
Return(p) ==
    /\ pc[p].step = "done"
    /\ pc' = [pc EXCEPT ![p] = Idle]
    /\ UNCHANGED <<store, now, ticks, history>>

(* --------------------------- specifications --------------------------- *)
Identifiers == Emails \cup Phones

\* The tables right after init_tables, the clock at zero, no request yet.
EmptyStore ==
    /\ users = {} /\ next_user_id = 1
    /\ otp_codes = {} /\ refresh_tokens = {}
    /\ next_otp_id = 1 /\ next_refresh_id = 1
    /\ now = 0 /\ ticks = 0
    /\ handed = {} /\ redeemed = {} /\ revoked = {} /\ verified = {}

\* The store after alice (with a phone) and bob (without) have registered.
Alice == [id |-> 1, email |-> <<"a", "@">>, phone |-> <<"+", "1">>, username |-> "alice",
          password_hash |-> get_password_hash(StrongPass), is_active |-> TRUE,
          email_verified |-> FALSE, phone_verified |-> FALSE]
Bob == [id |-> 2, email |-> <<"b", "@">>, phone |-> None, username |-> "bob",
        password_hash |-> get_password_hash(OtherPass), is_active |-> TRUE,
        email_verified |-> FALSE, phone_verified |-> FALSE]

TwoUsers ==
    /\ users = {Alice, Bob} /\ next_user_id = 3
    /\ otp_codes = {} /\ refresh_tokens = {}
    /\ next_otp_id = 1 /\ next_refresh_id = 1
    /\ now = 0 /\ ticks = 0
    /\ handed = {} /\ redeemed = {} /\ revoked = {} /\ verified = {}

Register(p) ==
    \/ \E e \in Emails, ph \in Phones \cup {None}, n \in Usernames, w \in Passwords :
          RegisterCheck(p, e, ph, n, w)
    \/ RegisterInsert(p)

Login(p, identifiers, passwords) ==
    \/ \E i \in identifiers, w \in passwords : LoginFetch(p, i, w)
    \/ LoginInsert(p)

Refresh(p) ==
    \/ \E t \in Presentable : RefreshLookup(p, t)
    \/ RefreshDelete(p)
    \/ RefreshInsert(p)

Logout(p) ==
    \/ \E t \in Presentable : LogoutAuth(p, t)
    \/ LogoutDelete(p)

RequestOtp(p, identifiers, codes) ==
    \/ \E i \in identifiers, c \in Channels : RequestOtpFetch(p, i, c)
    \/ \E code \in codes : RequestOtpInsert(p, code)
    \/ \E ok \in BOOLEAN : RequestOtpSend(p, ok)

VerifyOtp(p, identifiers, codes) ==
    \/ \E i \in identifiers, c \in Channels, code \in codes : VerifyOtpFetch(p, i, c, code)
    \/ VerifyOtpSelect(p)
    \/ VerifyOtpMark(p)
    \/ VerifyOtpFlag(p)
    \/ VerifyOtpInsert(p)

\* Sessions, one request at a time: login, refresh, logout.
InitTok == TwoUsers /\ pc = [p \in {1} |-> Idle]
NextTok ==
    \/ \E p \in Slots : Login(p, Identifiers, {StrongPass, OtherPass})
    \/ \E p \in Slots : Refresh(p)
    \/ \E p \in Slots : Logout(p)
    \/ \E p \in Slots : Return(p)
    \/ \E d \in {1, RefreshTtl, RefreshTtl + 1} : Tick(d)
SpecTok == InitTok /\ [][NextTok]_vars

\* Sessions, two requests at a time.
InitTok2 == TwoUsers /\ pc = [p \in {1, 2} |-> Idle]
NextTok2 ==
    \/ \E p \in Slots : Login(p, {Alice.email, Bob.email}, {StrongPass})
    \/ \E p \in Slots : Refresh(p)
    \/ \E p \in Slots : Logout(p)
    \/ \E p \in Slots : Return(p)
    \/ \E d \in {1} : Tick(d)
SpecTok2 == InitTok2 /\ [][NextTok2]_vars

\* One-time codes, one request at a time.
InitOtp == TwoUsers /\ pc = [p \in {1} |-> Idle]
NextOtp ==
    \/ \E p \in Slots : RequestOtp(p, {Alice.email, Alice.phone}, Codes)
    \/ \E p \in Slots : VerifyOtp(p, {Alice.email, Alice.phone}, Codes)
    \/ \E p \in Slots : Return(p)
    \/ \E d \in {1, OtpTtl} : Tick(d)
SpecOtp == InitOtp /\ [][NextOtp]_vars

\* One-time codes of two users and both channels, one request at a time.
NextOtpUsers ==
    \/ \E p \in Slots : RequestOtp(p, {Alice.email, Alice.phone, Bob.email}, {"123456"})
    \/ \E p \in Slots : VerifyOtp(p, {Alice.email, Alice.phone, Bob.email}, Codes)
    \/ \E p \in Slots : Return(p)
    \/ \E d \in {1} : Tick(d)
SpecOtpUsers == InitOtp /\ [][NextOtpUsers]_vars

\* One-time codes of one user, two requests at a time.
InitOtp2 == TwoUsers /\ pc = [p \in {1, 2} |-> Idle]
NextOtp2 ==
    \/ \E p \in Slots : RequestOtp(p, {Alice.email}, Codes)
    \/ \E p \in Slots : VerifyOtp(p, {Alice.email}, Codes)
    \/ \E p \in Slots : Return(p)
    \/ \E d \in {1} : Tick(d)
SpecOtp2 == InitOtp2 /\ [][NextOtp2]_vars

\* Registration, one request at a time, from the empty store.
InitReg == EmptyStore /\ pc = [p \in {1} |-> Idle]
NextReg ==
    \/ \E p \in Slots : Register(p)
    \/ \E p \in Slots : Return(p)
SpecReg == InitReg /\ [][NextReg]_vars

\* Registration, two requests at a time.
InitReg2 == EmptyStore /\ pc = [p \in {1, 2} |-> Idle]
SpecReg2 == InitReg2 /\ [][NextReg]_vars

\* Registration with passwords on both sides of every rule of the policy.
NextPw ==
    \E p \in Slots :
        \/ \E password \in PolicyPasswords :
               RegisterCheck(p, Alice.email, None, Alice.username, password)
        \/ RegisterInsert(p)
        \/ Return(p)
SpecPw == InitReg /\ [][NextPw]_vars

\* Every handler that issues tokens, and logout, one request at a time:
\* Alice signs in with her password, Bob with one-time codes.
Init == TwoUsers /\ pc = [p \in {1} |-> Idle]
Next ==
    \/ \E p \in Slots : Login(p, {Alice.email} \cup (Phones \ {Alice.phone}), {StrongPass, OtherPass})
    \/ \E p \in Slots : Refresh(p)
    \/ \E p \in Slots : Logout(p)
    \/ \E p \in Slots : RequestOtp(p, {Bob.email}, {"123456"})
    \/ \E p \in Slots : VerifyOtp(p, {Bob.email}, {"123456"})
    \/ \E p \in Slots : Return(p)
    \/ \E d \in {1} : Tick(d)
Spec == Init /\ [][Next]_vars

\* Protected requests, one request at a time: login, /me, logout, while an
\* operator may deactivate users and access tokens run out.
Me(p) == \E t \in Presentable : get_current_user_info(p, t)

InitAuth == TwoUsers /\ pc = [p \in {1} |-> Idle]
NextAuth ==
    \/ \E p \in Slots : Login(p, {Alice.email, Bob.email}, {StrongPass, OtherPass})
    \/ \E p \in Slots : Me(p)
    \/ \E p \in Slots : Logout(p)
    \/ \E u \in {Alice.id, Bob.id} : Deactivate(u)
    \/ \E p \in Slots : Return(p)
    \/ \E d \in {AccessTtl, AccessTtl + 1} : Tick(d)
SpecAuth == InitAuth /\ [][NextAuth]_vars

\* One user from registration on: alice registers (with or without her
\* phone) and verifies her channels, two requests at a time.
InitFlags == EmptyStore /\ pc = [p \in {1, 2} |-> Idle]
NextFlags ==
    \/ \E p \in Slots, ph \in {Alice.phone, None} :
          RegisterCheck(p, Alice.email, ph, Alice.username, StrongPass)
    \/ \E p \in Slots : RegisterInsert(p)
    \/ \E p \in Slots : RequestOtp(p, {Alice.email, Alice.phone}, {"123456"})
    \/ \E p \in Slots : VerifyOtp(p, {Alice.email, Alice.phone}, {"123456"})
    \/ \E p \in Slots : Return(p)
SpecFlags == InitFlags /\ [][NextFlags]_vars

\* Every operation against a user whom an operator may deactivate, one
\* request at a time.
InitInactive == TwoUsers /\ pc = [p \in {1} |-> Idle]
NextInactive ==
    \/ \E p \in Slots : Login(p, {Alice.email}, {StrongPass})
    \/ \E p \in Slots : Refresh(p)
    \/ \E p \in Slots : RequestOtp(p, {Alice.email}, {"123456"})
    \/ \E p \in Slots : VerifyOtp(p, {Alice.email}, {"123456"})
    \/ \E p \in Slots : Me(p)
    \/ \E u \in {Alice.id} : Deactivate(u)
    \/ \E p \in Slots : Return(p)
SpecInactive == InitInactive /\ [][NextInactive]_vars

\* with_retry around an operation that may fail; main of medical_explain.py
\* (254-279) starts its runners with retries = 3.
WithRetry(p) ==
    \/ \E retries \in 0..MaxRetries, d \in Delays, b \in Backoffs : RetryStart(p, retries, d, b)
    \/ \E outcome \in Outcomes : RetryCall(p, outcome)
    \/ RetrySleep(p)
NextRetry ==
    \/ \E p \in Slots : WithRetry(p)
    \/ \E p \in Slots : Return(p)
SpecRetry == InitTok /\ [][NextRetry]_vars

\* Every call of the wrapped operation ends, and so does every sleep.
FairSpecRetry ==
    /\ SpecRetry
    /\ WF_vars(\E outcome \in Outcomes : RetryCall(1, outcome))
    /\ WF_vars(RetrySleep(1))

\* Every handler, one request at a time, from the store in which alice has
\* registered and bob has not: each error of each handler can happen.
OneUser ==
    /\ users = {Alice} /\ next_user_id = 2
    /\ otp_codes = {} /\ refresh_tokens = {}
    /\ next_otp_id = 1 /\ next_refresh_id = 1
    /\ now = 0 /\ ticks = 0
    /\ handed = {} /\ redeemed = {} /\ revoked = {} /\ verified = {}

InitAll == OneUser /\ pc = [p \in {1} |-> Idle]
NextAll ==
    \/ \E p \in Slots :
          \/ \E e \in Emails, w \in {StrongPass, WeakPass} :
                RegisterCheck(p, e, None, Bob.username, w)
          \/ RegisterInsert(p)
    \/ \E p \in Slots : Login(p, {Alice.email}, {StrongPass, OtherPass})
    \/ \E p \in Slots : Refresh(p)
    \/ \E p \in Slots : Logout(p)
    \/ \E p \in Slots : Me(p)
    \/ \E p \in Slots : RequestOtp(p, {Alice.email}, {"123456"})
    \/ \E p \in Slots : VerifyOtp(p, {Alice.email}, Codes)
    \/ \E p \in Slots : Return(p)
    \/ \E d \in {1} : Tick(d)
SpecAll == InitAll /\ [][NextAll]_vars

\* Logout among the sessions and one-time codes of two users, while an
\* operator may deactivate users and access tokens run out.
NextLogout ==
    \/ \E p \in Slots : Login(p, {Alice.email, Bob.email}, {StrongPass, OtherPass})
    \/ \E p \in Slots : Logout(p)
    \/ \E p \in Slots : RequestOtp(p, {Alice.email}, {"123456"})
    \/ \E u \in {Alice.id, Bob.id} : Deactivate(u)
    \/ \E p \in Slots : Return(p)
    \/ \E d \in {AccessTtl + 1} : Tick(d)
SpecLogout == InitAuth /\ [][NextLogout]_vars

(* ------------------------------- claims ------------------------------- *)
IsDone(p, op) == pc[p].op = op /\ pc[p].step = "done"
IssuingOps == {"login", "verify_otp", "refresh_token"}

\* C1: once a Refresh(t) call has succeeded, every later Refresh(t) call
\* fails Unauthorized, whatever the time between issuance and redemption.
\* (replay: t had been redeemed when this call began.)
C1_RefreshSingleUse ==
    \A p \in Slots :
        (IsDone(p, "refresh_token") /\ pc[p].replay) => pc[p].result = "Unauthorized"

\* C2: of two Refresh calls that both found the same stored record of the
\* token they present, exactly one succeeds and the other fails Unauthorized.
C2_ConcurrentRefreshOneWinner ==
    \A p, q \in Slots :
        (/\ p # q
         /\ IsDone(p, "refresh_token") /\ IsDone(q, "refresh_token")
         /\ pc[p].rec # 0 /\ pc[p].rec = pc[q].rec)
        => \/ pc[p].result = "ok" /\ pc[q].result = "Unauthorized"
           \/ pc[q].result = "ok" /\ pc[p].result = "Unauthorized"

\* C3: after a Logout of user u has completed, every Refresh call presenting
\* a refresh token issued to u before that Logout fails Unauthorized (also
\* after u has logged in again, whose new token is the one Refresh accepts).
\* (after_logout: the token was such a token when this call began.)
C3_LogoutRevokesEarlierTokens ==
    \A p \in Slots :
        (IsDone(p, "refresh_token") /\ pc[p].after_logout) => pc[p].result = "Unauthorized"

\* C4: after a VerifyOTP(identifier, channel, code) has succeeded, a second
\* VerifyOTP with the same identifier, channel and code fails
\* InvalidOrExpired, whatever RequestOTP calls preceded the first one.
\* (again: the triple had been accepted, and no RequestOTP has stored that
\* code for it since, when this call began.)
C4_OtpAcceptedOnce ==
    \A p \in Slots :
        (IsDone(p, "verify_otp") /\ pc[p].again) => pc[p].result = "InvalidOrExpired"

\* C5: of two VerifyOTP calls that both selected the same OTP record, at
\* most one succeeds and the other fails InvalidOrExpired.
C5_ConcurrentVerifyOneWinner ==
    \A p, q \in Slots :
        (/\ p # q
         /\ IsDone(p, "verify_otp") /\ IsDone(q, "verify_otp")
         /\ pc[p].rec # 0 /\ pc[p].rec = pc[q].rec
         /\ pc[p].result = "ok")
        => pc[q].result = "InvalidOrExpired"

\* C6: a VerifyOTP whose lookup runs at a time now >= expires_at of the only
\* OTP record with its user, channel and code, that record being unused,
\* fails InvalidOrExpired, leaves the record unused and issues no tokens.
C6_ExpiredOtpRejected ==
    [][\A p \in Slots :
          (pc[p].op = "verify_otp" /\ pc[p].step = "select" /\ pc'[p] # pc[p])
          => LET matching == {o \in otp_codes : /\ o.user_id = pc[p].uid
                                                /\ o.code = pc[p].code
                                                /\ o.type = pc[p].type}
             IN  (/\ Cardinality(matching) = 1
                  /\ \A o \in matching : ~o.used /\ now >= o.expires_at)
                 => /\ pc'[p].step = "done"
                    /\ pc'[p].result = "InvalidOrExpired"
                    /\ otp_codes' = otp_codes
                    /\ refresh_tokens' = refresh_tokens
                    /\ handed' = handed]_vars

\* A VerifyOTP was refused at the very second its only matching record,
\* unused, expired.
C6_Witness ==
    \E p \in Slots :
        /\ IsDone(p, "verify_otp") /\ pc[p].result = "InvalidOrExpired"
        /\ \E o \in otp_codes :
              /\ o.user_id = pc[p].uid /\ o.code = pc[p].code /\ o.type = pc[p].type
              /\ ~o.used /\ o.expires_at = pc[p].at
              /\ \A x \in otp_codes :
                    (x.user_id = o.user_id /\ x.code = o.code /\ x.type = o.type) => x = o

\* The user a running issuing handler acts for: the one it fetched, or the
\* owner of the refresh record it matched.
ActsFor(p) == IF pc[p].op = "refresh_token" THEN pc[p].owner ELSE pc[p].uid

\* C7: when a Login, VerifyOTP or Refresh returns success, its access token
\* decodes to the id of the user it acted for, and the store holds a record
\* of its refresh token string with that user's id and expires_at in the future.
C7_IssuedPairIsGood ==
    [][\A p \in Slots :
          (/\ pc[p].op \in IssuingOps /\ pc[p].step # "done"
           /\ pc'[p].step = "done" /\ pc'[p].result = "ok")
          => /\ jwt_decode_ok(pc'[p].access, now')
             /\ pc'[p].access.sub = ActsFor(p)
             /\ \E r \in refresh_tokens' : /\ r.token = pc'[p].refresh
                                           /\ r.user_id = ActsFor(p)
                                           /\ r.expires_at > now']_vars

\* A Login has just succeeded after a VerifyOTP and a Refresh had.
C7_Witness ==
    /\ redeemed # {} /\ verified # {}
    /\ \E p \in Slots : IsDone(p, "login") /\ pc[p].result = "ok"

\* C8: the token strings of the stored refresh token records are pairwise
\* distinct, and every issuance (also a second one for the same user at the
\* same clock value) succeeds.
C8_TokensDistinctAndIssued ==
    /\ \A r1, r2 \in refresh_tokens : r1.token = r2.token => r1 = r2
    /\ \A p \in Slots :
          (pc[p].op \in IssuingOps /\ pc[p].step = "done")
          => pc[p].result # "InternalError"

\* The users that existed when the Register call in slot p began, and
\* whether the call's email, username or non-null phone is one of theirs.
UsersBefore(p) == {u \in users : u.id < pc[p].first}
Clashes(p) ==
    \E u \in UsersBefore(p) :
        \/ u.email = pc[p].email
        \/ u.username = pc[p].username
        \/ (pc[p].phone # None /\ u.phone = pc[p].phone)

\* C9 as stated: run one after the other, a Register call that clashes with
\* an existing user fails with Conflict and creates no user; one with a valid
\* password that clashes with nobody succeeds and creates exactly one user.
C9_RegisterSequential ==
    \A p \in Slots :
        IsDone(p, "register")
        => /\ Clashes(p) => (pc[p].result = "Conflict" /\ users = UsersBefore(p))
           /\ (~Clashes(p) /\ validate_password(pc[p].password))
              => (pc[p].result = "ok" /\ Cardinality(users \ UsersBefore(p)) = 1)

\* C9 amended: the first half too is about a call with a valid password; a
\* call with an invalid password fails with InvalidInput and creates no user.
C9_RegisterSequentialValid ==
    \A p \in Slots :
        IsDone(p, "register")
        => /\ (Clashes(p) /\ validate_password(pc[p].password))
              => (pc[p].result = "Conflict" /\ users = UsersBefore(p))
           /\ (~Clashes(p) /\ validate_password(pc[p].password))
              => (pc[p].result = "ok" /\ Cardinality(users \ UsersBefore(p)) = 1)
           /\ ~validate_password(pc[p].password)
              => (pc[p].result = "InvalidInput" /\ users = UsersBefore(p))

\* A Register call was refused with Conflict because only its phone is taken.
C9_Witness ==
    \E p \in Slots :
        /\ IsDone(p, "register") /\ pc[p].result = "Conflict"
        /\ \A u \in users : u.email # pc[p].email /\ u.username # pc[p].username

\* C10: no two users share an email, a username or a non-null phone.
C10_UsersUnique ==
    \A u, v \in users :
        u # v => /\ u.email # v.email
                 /\ u.username # v.username
                 /\ (u.phone # None => u.phone # v.phone)

\* Two Register calls passed the existence check together and the second
\* insert was stopped by the table.
C10_Witness ==
    /\ Cardinality(users) = 1
    /\ \E p \in Slots : IsDone(p, "register") /\ pc[p].result = "InternalError"

\* C11: of two Register calls that share an email, username or phone and
\* interleave between the existence check and the insert, the one that does
\* not create the user fails with Conflict, not with another error kind.
\* (A call with a valid password that creates no user ended in Conflict.)
C11_RegisterRaceConflict ==
    \A p \in Slots :
        (/\ IsDone(p, "register")
         /\ validate_password(pc[p].password)
         /\ pc[p].result # "ok")
        => pc[p].result = "Conflict"

\* The active users a Login identifier names, by email or by phone.
Named(identifier) ==
    {u \in users : u.is_active /\ (u.email = identifier \/ u.phone = identifier)}

\* C12: a Login for which no active user matches the identifier, or whose
\* password is not the one the found user's hash was made from, fails with
\* the one error Unauthorized and inserts no refresh token record.
C12_LoginRefusedAlike ==
    [][\A p \in Slots :
          (Free(p) /\ pc'[p].op = "login")
          => LET user == Named(pc'[p].identifier)
             IN  (\/ user = {}
                  \/ \A u \in user : u.password_hash # get_password_hash(pc'[p].password))
                 => /\ pc'[p].step = "done"
                    /\ pc'[p].result = "Unauthorized"
                    /\ refresh_tokens' = refresh_tokens
                    /\ next_refresh_id' = next_refresh_id]_vars

\* A Login of an existing active user with a wrong password was refused and
\* the table of refresh tokens is still empty.
C12_Witness ==
    \E p \in Slots :
        /\ IsDone(p, "login") /\ pc[p].result = "Unauthorized"
        /\ \E u \in users : u.is_active /\ u.email = pc[p].identifier
        /\ refresh_tokens = {}

\* C13: AuthenticateRequest(token) succeeds, as the user of the token's
\* subject, exactly when the token is signed by the server, its expiry has
\* not passed (every signed token carries a subject) and that user exists
\* with is_active true at the call; otherwise it fails Unauthorized.
C13_AuthenticateIff ==
    [][\A p \in Slots :
          (Free(p) /\ pc'[p].op = "me")
          => LET t == pc'[p].token
                 good == /\ t.sig
                         /\ t.exp >= now
                         /\ \E u \in users : u.id = t.sub /\ u.is_active
             IN  /\ pc'[p].step = "done"
                 /\ good => (pc'[p].result = "ok" /\ pc'[p].uid = t.sub)
                 /\ ~good => pc'[p].result = "Unauthorized"]_vars

\* A signed token that had not run out was refused because its user had
\* been deactivated.
C13_Witness ==
    \E p \in Slots :
        /\ IsDone(p, "me") /\ pc[p].result = "Unauthorized"
        /\ pc[p].token.sig /\ pc[p].token.exp >= now
        /\ \E u \in users : u.id = pc[p].token.sub /\ ~u.is_active

\* The refresh token issued together with an access token.
Twin(access) == create_refresh_token(access.sub, access.exp - AccessTtl)

\* C14: after a Logout of user u, AuthenticateRequest with an access token
\* issued to u before that Logout still succeeds while the token has not
\* run out and u is active.
C14_LogoutKeepsAccessTokens ==
    [][\A p \in Slots :
          (/\ Free(p) /\ pc'[p].op = "me"
           /\ [tok |-> pc'[p].token, kind |-> "access"] \in handed
           /\ Twin(pc'[p].token) \in revoked
           /\ pc'[p].token.exp >= now
           /\ \E u \in users : u.id = pc'[p].token.sub /\ u.is_active)
          => pc'[p].result = "ok"]_vars

\* An access token issued before its user's Logout was accepted after it.
C14_Witness ==
    \E p \in Slots :
        /\ IsDone(p, "me") /\ pc[p].result = "ok"
        /\ [tok |-> pc[p].token, kind |-> "access"] \in handed
        /\ Twin(pc[p].token) \in revoked
        /\ \A r \in refresh_tokens : r.user_id # pc[p].uid

\* Some OTP record of user u on the channel has been used.
UsedOtp(u, type) ==
    \E o \in otp_codes : o.user_id = u.id /\ o.type = type /\ o.used

\* C15: a user's email_verified (phone_verified) flag is true only if some
\* OTP record of that user on channel email (phone) has used = true; the
\* flags are false right after Register, a successful VerifyOTP leaves the
\* flag of its channel true, and a flag never returns to false.
C15_VerifiedFlags ==
    /\ [](\A u \in users : /\ u.email_verified => UsedOtp(u, "email")
                           /\ u.phone_verified => UsedOtp(u, "phone"))
    /\ [][/\ \A v \in users' :
                /\ (\A u \in users : u.id # v.id)
                   => (~v.email_verified /\ ~v.phone_verified)
                /\ \A u \in users :
                      u.id = v.id => /\ u.email_verified => v.email_verified
                                     /\ u.phone_verified => v.phone_verified
          /\ \A p \in Slots :
                (/\ pc[p].op = "verify_otp" /\ pc[p].step # "done"
                 /\ pc'[p].step = "done" /\ pc'[p].result = "ok")
                => \E v \in users' :
                      /\ v.id = pc[p].uid
                      /\ IF pc[p].type = "email" THEN v.email_verified
                         ELSE v.phone_verified]_vars

\* A VerifyOTP on the email channel has succeeded for a user whose phone
\* stays unverified.
C15_Witness ==
    \E p \in Slots :
        /\ IsDone(p, "verify_otp") /\ pc[p].result = "ok" /\ pc[p].type = "email"
        /\ \E u \in users : u.id = pc[p].uid /\ u.email_verified /\ ~u.phone_verified

\* The unused, unexpired OTP records of a user on a channel at time t.
LiveOtps(user_id, type, t) ==
    {o \in otp_codes : /\ o.user_id = user_id /\ o.type = type
                       /\ ~o.used /\ o.expires_at > t}

\* C16: when several unused, unexpired OTP records exist for one (user,
\* channel), only the most recently created is valid: a VerifyOTP whose code
\* is that of an older record, and not of the newest, fails InvalidOrExpired.
C16_OnlyNewestOtpValid ==
    [][\A p \in Slots :
          (pc[p].op = "verify_otp" /\ pc[p].step = "select" /\ pc'[p] # pc[p])
          => LET live == LiveOtps(pc[p].uid, pc[p].type, now)
             IN  (/\ \E o \in live : o.code = pc[p].code
                  /\ \A o \in Newest(live) : o.code # pc[p].code)
                 => /\ pc'[p].step = "done"
                    /\ pc'[p].result = "InvalidOrExpired"]_vars

\* Slot q has deleted the record it redeems and has not yet inserted the
\* record that replaces it.
InRotationGap(q) == pc[q].op = "refresh_token" /\ pc[q].step = "insert"

\* C17: rotation is atomic: no other operation runs its storage call on the
\* session being rotated (the lookup of a Refresh of the same token, the
\* delete of a Logout of the same user) in a state where a Refresh has
\* deleted the redeemed record and has not yet inserted the replacing one.
C17_RotationAtomic ==
    [][\A p, q \in Slots :
          (p # q /\ InRotationGap(q))
          => /\ ~(/\ Free(p) /\ pc'[p].op = "refresh_token"
                  /\ pc'[p].token = pc[q].token
                  /\ jwt_decode_ok(pc'[p].token, now))
             /\ ~(/\ pc[p].op = "logout" /\ pc[p].step = "delete"
                  /\ pc[p].uid = pc[q].owner
                  /\ pc'[p] # pc[p])]_vars

\* C18: when the notifier reports failure, RequestOTP fails DeliveryFailed
\* and the OTP record it inserted stays in the store as it is; a VerifyOTP
\* that then presents the code and selects that record (it is still unused
\* and unexpired) succeeds.
C18_UndeliveredOtpStillWorks ==
    /\ [][\A q \in Slots :
             (/\ pc[q].op = "request_otp" /\ pc[q].step = "send"
              /\ pc'[q].step = "done" /\ pc'[q].result # "ok")
             => /\ pc'[q].result = "DeliveryFailed"
                /\ otp_codes' = otp_codes
                /\ \E o \in otp_codes : o.id = pc[q].rec /\ o.code = pc[q].code]_vars
    /\ [](\A p, q \in Slots :
             (/\ IsDone(q, "request_otp") /\ pc[q].result = "DeliveryFailed"
              /\ IsDone(p, "verify_otp") /\ pc[p].rec = pc[q].rec)
             => pc[p].result = "ok")

\* The users with is_active false.
Inactive == {u \in users : ~u.is_active}

\* C19: a user whose is_active flag is false is absent for every operation
\* that begins: Login naming the user fails Unauthorized, RequestOTP and
\* VerifyOTP fail NotFound, AuthenticateRequest with a token of the user
\* fails Unauthorized, and Refresh of a refresh token of the user fails
\* Unauthorized, so that no token pair is issued for the user.
C19_InactiveUserAbsent ==
    [][\A p \in Slots :
          Free(p) =>
            /\ (/\ pc'[p].op = "login"
                /\ \E u \in Inactive : u.email = pc'[p].identifier
                                       \/ u.phone = pc'[p].identifier)
               => (pc'[p].step = "done" /\ pc'[p].result = "Unauthorized")
            /\ (/\ pc'[p].op \in {"request_otp", "verify_otp"}
                /\ \E u \in Inactive :
                      IF pc'[p].type = "email" THEN u.email = pc'[p].identifier
                      ELSE u.phone = pc'[p].identifier)
               => (pc'[p].step = "done" /\ pc'[p].result = "NotFound")
            /\ (/\ pc'[p].op \in {"me", "refresh_token"}
                /\ pc'[p].token.sig
                /\ \E u \in Inactive : u.id = pc'[p].token.sub)
               => (pc'[p].step = "done" /\ pc'[p].result = "Unauthorized")]_vars

\* C20: a Refresh presenting a server-signed refresh token at or after the
\* token's expiry fails Unauthorized and leaves the store unchanged, also
\* when the record of that token is still in the store.
C20_ExpiredRefreshRejected ==
    [][\A p \in Slots :
          (/\ Free(p) /\ pc'[p].op = "refresh_token"
           /\ pc'[p].token.sig
           /\ pc'[p].token.exp <= now)
          => /\ pc'[p].step = "done"
             /\ pc'[p].result = "Unauthorized"
             /\ UNCHANGED store]_vars

\* A refresh token was refused after its expiry while its record, never
\* swept, is still in the store.
C20_Witness ==
    \E p \in Slots :
        /\ IsDone(p, "refresh_token") /\ pc[p].result = "Unauthorized"
        /\ pc[p].token.sig /\ pc[p].token.exp < now
        /\ \E r \in refresh_tokens : r.token = pc[p].token

\* C21: Register accepts a password exactly when it has at least 8 characters
\* and contains an uppercase letter, a lowercase letter and a digit; a call with
\* any other password ends at once with InvalidInput and creates no user.
C21_PasswordPolicy ==
    [][\A p \in Slots :
          (Free(p) /\ pc'[p].op = "register") =>
              LET w == pc'[p].password
                  allowed == /\ Len(w) >= 8
                             /\ \E i \in 1..Len(w) : w[i] \in Upper
                             /\ \E i \in 1..Len(w) : w[i] \in Lower
                             /\ \E i \in 1..Len(w) : w[i] \in Digit
              IN  /\ (pc'[p].result = "InvalidInput") <=> ~allowed
                  /\ ~allowed => pc'[p].step = "done" /\ users' = users]_vars

C21_Witness ==
    \E p \in Slots :
        /\ IsDone(p, "register") /\ pc[p].result = "InvalidInput"
        /\ Len(pc[p].password) >= 8
        /\ \E i \in 1..8 : pc[p].password[i] \in Upper
        /\ \E i \in 1..8 : pc[p].password[i] \in Lower
        /\ \A i \in 1..8 : pc[p].password[i] \notin Digit
        /\ users = {}

\* main.py 255-269: what the decode and the SELECT of refresh_token ask of a token.
Redeemable(token) ==
    /\ token.sig /\ token.exp >= now
    /\ \E r \in refresh_tokens : r.token = token /\ r.expires_at > now

\* C22: a Refresh(t) call succeeds exactly when t is validly signed and not
\* expired and, at the lookup, the store holds a record with token = t and
\* expires_at > now; any other string, a signed one that was never stored as a
\* refresh token included, is rejected with Unauthorized.
C22_RefreshSucceedsIff ==
    /\ [](\A p \in Slots :
             (IsDone(p, "refresh_token") /\ pc[p].rec # 0) => pc[p].result = "ok")
    /\ [][\A p \in Slots :
             (Free(p) /\ pc'[p].op = "refresh_token") =>
                 IF Redeemable(pc'[p].token)
                 THEN pc'[p].step = "delete"
                 ELSE pc'[p].step = "done" /\ pc'[p].result = "Unauthorized"]_vars

\* C23: a successful Refresh removes exactly the one record it matched and
\* inserts exactly one new record for the same user; every other refresh token
\* record stays as it is and no record is changed in place, so the number of
\* records of that user is the same before and after.
C23_RotationFrame ==
    /\ [][\A r \in refresh_tokens : \A n \in refresh_tokens' : r.id = n.id => r = n]_vars
    /\ [][\A p \in Slots :
             (pc[p].op = "refresh_token" /\ pc[p].step = "insert"
                  /\ pc'[p].step = "done" /\ pc'[p].result = "ok") =>
                 /\ pc[p].deleted = 1
                 /\ \E n \in refresh_tokens' :
                        /\ \A r \in refresh_tokens : r.id # n.id
                        /\ n.user_id = pc[p].owner
                        /\ refresh_tokens' = refresh_tokens \cup {n}]_vars
    /\ [][\A p \in Slots :
             (pc[p].op = "refresh_token" /\ pc[p].step = "delete"
                  /\ pc'[p].step = "insert") =>
                 refresh_tokens' = {r \in refresh_tokens : r.id # pc[p].rec}]_vars

\* The OTP records issued to user uid on channel type with the given code.
IssuedTo(uid, type, code) ==
    {o \in otp_codes : o.user_id = uid /\ o.type = type /\ o.code = code}

\* C24: VerifyOTP succeeds only when an OTP record exists with the user_id of
\* the user found, the requested channel and the presented code; a code issued
\* to another user, or for the other channel of the same user, is rejected with
\* InvalidOrExpired and sets no verified flag.
C24_OtpBoundToUserAndChannel ==
    /\ [](\A p \in Slots :
             (IsDone(p, "verify_otp") /\ pc[p].result = "ok") =>
                 IssuedTo(pc[p].uid, pc[p].type, pc[p].code) # {})
    /\ [][\A p \in Slots :
             (pc[p].op = "verify_otp" /\ pc[p].step = "select"
                  /\ pc'[p] # pc[p] /\ IssuedTo(pc[p].uid, pc[p].type, pc[p].code) = {}) =>
                 /\ pc'[p].step = "done" /\ pc'[p].result = "InvalidOrExpired"
                 /\ users' = users]_vars
    /\ [][users' # users =>
             \E p \in Slots :
                 /\ pc[p].op = "verify_otp"
                 /\ \E o \in IssuedTo(pc[p].uid, pc[p].type, pc[p].code) : o.id = pc[p].rec
                 /\ \A u \in users : u.id # pc[p].uid => u \in users']_vars

C24_Witness ==
    \E p \in Slots :
        /\ IsDone(p, "verify_otp") /\ pc[p].result = "InvalidOrExpired"
        /\ \E o \in otp_codes :
               /\ o.user_id # pc[p].uid /\ o.type = pc[p].type /\ o.code = pc[p].code
               /\ ~o.used /\ o.expires_at > pc[p].at
        /\ \E o \in otp_codes :
               /\ o.user_id = pc[p].uid /\ o.type # pc[p].type /\ o.code = pc[p].code
               /\ ~o.used /\ o.expires_at > pc[p].at
        /\ \A u \in users : ~u.email_verified /\ ~u.phone_verified

\* The OTP record keeps its place and everything but its used flag, which
\* does not go back to false.
SameButUsed(o, n) ==
    /\ n.id = o.id /\ n.user_id = o.user_id /\ n.code = o.code /\ n.type = o.type
    /\ n.purpose = o.purpose /\ n.expires_at = o.expires_at
    /\ o.used => n.used

\* A verify_otp call in slot p is at its UPDATE of record o.
Marking(p, o) == pc[p].op = "verify_otp" /\ pc[p].step = "mark" /\ pc[p].rec = o.id

\* C25: an OTP record is never deleted, its used flag never goes back to
\* false, and its user_id, code, channel, purpose and expires_at never change;
\* only a successful VerifyOTP sets used to true.
C25_OtpLifecycle ==
    /\ [][\A o \in otp_codes : \E n \in otp_codes' : SameButUsed(o, n)]_vars
    /\ [][\A o \in otp_codes : \A n \in otp_codes' :
             (n.id = o.id /\ ~o.used /\ n.used) => \E p \in Slots : Marking(p, o)]_vars
    /\ [](\A p \in Slots :
             (IsDone(p, "verify_otp") /\ pc[p].result # "ok") =>
                 \A o \in otp_codes : o.used => o.id # pc[p].rec)

\* The active users an OTP request for this identifier and channel is about.
Requested(identifier, type) ==
    {u \in users : /\ u.is_active
                   /\ IF type = "email" THEN u.email = identifier
                                         ELSE u.phone = identifier}

\* C26: a RequestOTP that finds an active user inserts exactly one OTP record
\* with that user's id, the requested channel, purpose login, used false and
\* expires_at = now + 5 minutes, and changes no other OTP record, no user and
\* no refresh token; one that finds no such user fails with NotFound and
\* inserts nothing.
C26_RequestOtpEffect ==
    /\ [][\A p \in Slots :
             (Free(p) /\ pc'[p].op = "request_otp") =>
                 /\ IF Requested(pc'[p].identifier, pc'[p].type) = {}
                    THEN pc'[p].step = "done" /\ pc'[p].result = "NotFound"
                    ELSE /\ pc'[p].step = "insert"
                         /\ \E u \in Requested(pc'[p].identifier, pc'[p].type) :
                                pc'[p].uid = u.id
                 /\ otp_codes' = otp_codes /\ users' = users
                 /\ refresh_tokens' = refresh_tokens]_vars
    /\ [][\A p \in Slots :
             (pc[p].op = "request_otp" /\ pc[p].step = "insert" /\ pc'[p] # pc[p]) =>
                 /\ \E n \in otp_codes' :
                        /\ \A o \in otp_codes : o.id # n.id
                        /\ otp_codes' = otp_codes \cup {n}
                        /\ n.user_id = pc[p].uid /\ n.type = pc[p].type
                        /\ n.purpose = "login" /\ n.used = FALSE
                        /\ n.expires_at = now + 5 * 60
                 /\ users' = users /\ refresh_tokens' = refresh_tokens]_vars
    /\ [][\A p \in Slots :
             (pc[p].op = "request_otp" /\ pc[p].step = "send" /\ pc'[p] # pc[p]) =>
                 /\ otp_codes' = otp_codes /\ users' = users
                 /\ refresh_tokens' = refresh_tokens]_vars

C26_Witness ==
    \E p \in Slots :
        /\ IsDone(p, "request_otp") /\ pc[p].rec # 0
        /\ \E o \in otp_codes :
               /\ o.id = pc[p].rec /\ o.user_id = pc[p].uid /\ o.type = "phone"
               /\ o.expires_at = now + 5 * 60 /\ ~o.used
        /\ \E o \in otp_codes : o.id # pc[p].rec /\ o.used
        /\ refresh_tokens # {}

\* C27: a successful Register creates exactly one user, active and with both
\* verified flags false, under an id that no existing user has, and the view it
\* returns is that user without the password hash.
C27_RegisterCreatesOneUser ==
    [][\A p \in Slots :
          (pc[p].op = "register" /\ pc[p].step = "insert" /\ pc'[p].result = "ok") =>
              \E n \in users' :
                  /\ \A u \in users : u.id # n.id
                  /\ users' = users \cup {n}
                  /\ n.is_active /\ ~n.email_verified /\ ~n.phone_verified
                  /\ n.email = pc[p].email /\ n.username = pc[p].username
                  /\ "password_hash" \notin DOMAIN pc'[p].view
                  /\ \A f \in DOMAIN pc'[p].view : pc'[p].view[f] = n[f]
                  /\ {"id", "email", "username"} \subseteq DOMAIN pc'[p].view]_vars

C27_Witness ==
    \E p \in Slots :
        /\ IsDone(p, "register") /\ pc[p].result = "ok"
        /\ Cardinality(users) = 2
        /\ \E u \in users : u.id = pc[p].view.id /\ u.id = 2 /\ u.is_active
        /\ "password_hash" \notin DOMAIN pc[p].view

\* The active users whose email (identifier with an @) or else whose phone is
\* the identifier, and whose password is the one presented.
Claimed(identifier, password) ==
    LET at == \E k \in 1..Len(identifier) : identifier[k] = "@"
    IN  {u \in users : /\ u.is_active
                       /\ IF at THEN u.email = identifier ELSE u.phone = identifier
                       /\ u.password_hash = get_password_hash(password)}

\* C28: Login looks the user up by email exactly when the identifier contains
\* an @, and by phone otherwise: an identifier without @ logs in only the user
\* with that phone, an identifier with @ only the user with that email.
C28_LoginLookupColumn ==
    [][\A p \in Slots :
          (Free(p) /\ pc'[p].op = "login") =>
              LET found == Claimed(pc'[p].identifier, pc'[p].password)
              IN  IF found = {}
                  THEN pc'[p].step = "done" /\ pc'[p].result = "Unauthorized"
                  ELSE pc'[p].step = "insert" /\ \E u \in found : pc'[p].uid = u.id]_vars

C28_Witness ==
    \E p \in Slots :
        /\ IsDone(p, "login") /\ pc[p].result = "ok"
        /\ pc[p].identifier = Alice.phone /\ pc[p].uid = Alice.id
        /\ \A k \in 1..Len(pc[p].identifier) : pc[p].identifier[k] # "@"

\* The calls of the wrapped operation that raised a retryable exception.
AllRetryable(outcomes) ==
    \A i \in 1..Len(outcomes) :
        outcomes[i].kind = "raise" /\ outcomes[i].v \in retry_exceptions

\* C29: with_retry ends whenever every call of the wrapped operation ends; it
\* calls the operation at most retries + 1 times, returns the result of the
\* first call that does not raise without calling again, and re-raises the
\* exception of call retries + 1 when all calls raise a retryable exception.
C29_WithRetryTerminates ==
    /\ (pc[1].op = "with_retry") ~> (pc[1].op = "with_retry" /\ pc[1].step = "done")
    /\ [](\A p \in Slots :
             pc[p].op = "with_retry" =>
                 /\ pc[p].calls = Len(pc[p].outcomes)
                 /\ pc[p].calls <= pc[p].retries + 1
                 /\ \A i \in 1..(pc[p].calls - 1) :
                        pc[p].outcomes[i].kind = "raise"
                 /\ pc[p].step = "done" =>
                        LET last == pc[p].outcomes[pc[p].calls]
                        IN  /\ pc[p].calls >= 1
                            /\ pc[p].value = last.v
                            /\ (pc[p].result = "returned") <=> (last.kind = "return")
                            /\ (pc[p].result = "raised") <=> (last.kind = "raise")
                            /\ AllRetryable(pc[p].outcomes) =>
                                   pc[p].calls = pc[p].retries + 1)

C29_Witness ==
    \E p \in Slots :
        /\ pc[p].op = "with_retry" /\ pc[p].step = "done"
        /\ pc[p].retries = 3 /\ pc[p].calls = 4
        /\ AllRetryable(pc[p].outcomes)
        /\ pc[p].outcomes[1].v # pc[p].outcomes[4].v
        /\ pc[p].result = "raised" /\ pc[p].value = pc[p].outcomes[4].v
        /\ pc[p].slept = 1 + 2 + 4

\* C30: when a Logout of user u runs its DELETE while a Refresh of one of u's
\* refresh tokens is between its lookup and its INSERT, then once both calls
\* have finished the store holds no refresh token record of u.
C30_LogoutDuringRefresh ==
    \A p \in Slots : \A q \in Slots :
        (/\ IsDone(p, "logout") /\ pc[p].result = "ok"
         /\ IsDone(q, "refresh_token") /\ pc[q].rec \in pc[p].during) =>
            \A r \in refresh_tokens : r.user_id # pc[p].uid

\* The error kinds a handler answers with before it has written anything.
ErrorKinds == {"InvalidInput", "Conflict", "NotFound", "Unauthorized", "InvalidOrExpired"}

\* C31: a call that ends in InvalidInput, Conflict, NotFound, Unauthorized or
\* InvalidOrExpired leaves users, OTP records and refresh token records as
\* they were: it ends in its first step, or for VerifyOTP in its SELECT of
\* the code, and neither that step nor the one before it writes.
C31_ErrorsLeaveStoreAlone ==
    /\ [][\A p \in Slots :
             (pc[p].step # "done" /\ pc'[p].step = "done"
                  /\ pc'[p].result \in ErrorKinds) =>
                 /\ users' = users /\ otp_codes' = otp_codes
                 /\ refresh_tokens' = refresh_tokens
                 /\ Free(p) \/ (pc[p].op = "verify_otp" /\ pc[p].step = "select")]_vars
    /\ [][\A p \in Slots :
             (Free(p) /\ pc'[p].step # "idle") =>
                 /\ users' = users /\ otp_codes' = otp_codes
                 /\ refresh_tokens' = refresh_tokens]_vars

C31_Witness ==
    \E p \in Slots :
        /\ IsDone(p, "logout") /\ pc[p].result = "Unauthorized"
        /\ \E r \in refresh_tokens : r.user_id = pc[p].token.sub
        /\ otp_codes # {} /\ Cardinality(users) = 2

\* The token is signed, has not run out, and names an active user.
Authenticates(token) ==
    /\ token.sig /\ token.exp >= now
    /\ \E u \in users : u.id = token.sub /\ u.is_active

RefreshOnly(token) ==
    /\ [tok |-> token, kind |-> "refresh"] \in handed
    /\ [tok |-> token, kind |-> "access"] \notin handed

\* C33: a refresh token is never accepted as an access credential: a protected
\* operation (/me, Logout) called with a string that was issued as a refresh
\* token only, whether or not its record is still stored, fails Unauthorized.
C33_RefreshTokenNotAccess ==
    [][\A p \in Slots :
          (Free(p) /\ pc'[p].op \in {"me", "logout"} /\ RefreshOnly(pc'[p].token)) =>
              pc'[p].step = "done" /\ pc'[p].result = "Unauthorized"]_vars

====
